---- MODULE Spec2Model ----
(***************************************************************************)
(* Market settlement engine of hypermarket (contracts/src/market.rs), with *)
(* the identity provider (auth.rs) and the oracle registry (oracle.rs) it  *)
(* consults.  One engine instance (MarketContractState) over one market.   *)
(*                                                                         *)
(* Conventions.                                                            *)
(*  - Option<T> and Result<T, _> values are sequences: <<>> is None / Err, *)
(*    <<x>> is Some(x) / Ok(x).                                            *)
(*  - HashMap<K, V> is a function whose DOMAIN is the set of present keys. *)
(*  - U256 values are naturals; the bounds keep every value far below      *)
(*    2^256, so only underflow (a panic in U256 subtraction) is modelled.  *)
(*  - Every call of the exchange gateway is an input of the action: its    *)
(*    success flag, the L2 book and the position it returns.               *)
(*  - last records the operation that ran last and what it returned.       *)
(***************************************************************************)
EXTENDS Integers, Sequences, FiniteSets, TLC

\* ----------------------------------------------------------------- bounds
MaxCollateral == 101
MaxSupply == 1

\* ------------------------------------------------------------ identities
Address == {1, 2}

\* format!("{:?}", address): the hex rendering of an address, as a string
AddrDebug(a) == <<"0x", a>>

None == <<>>
Some(x) == <<x>>

\* Market.expiry_timestamp of the engine's market; the clock starts before it
ExpiryTimestamp == 1

\* the engine's market: key of the oracle registry and of the gateway
YES_TOKEN == "YES_TOKEN"
MarketIds == {YES_TOKEN}

\* ------------------------------------------------------- inputs (bounded)
DepositAmounts == {101}
WithdrawAmounts == {0, 1, 101}
MintAmounts == {1}
BurnAmounts == {<<1, 1>>, <<1, 0>>}
OrderAmounts == {1}
Prices == {1, 13}
Sides == {"Buy", "Sell"}
OracleCandidates == {1}

EmptyBook == [bids |-> <<>>, asks |-> <<>>]
QuotedBook == [bids |-> <<[price |-> 10, size |-> 1]>>,
               asks |-> <<[price |-> 11, size |-> 1]>>]
Books == {EmptyBook, QuotedBook}
Positions == {[size |-> 0, entry_price |-> 0], [size |-> -3, entry_price |-> 2]}

\* Result<L2Book, _> and Result<Position, _> as returned by the gateway
BookResults == {None} \cup {Some(b) : b \in Books}
PositionResults == {None} \cup {Some(p) : p \in Positions}

\* ------------------------------------------------------------------ state
VARIABLES
    market,               \* Market: status, expiry_timestamp, oracle_id, resolved_outcome
    yes_token_supply,
    no_token_supply,
    user_balances,        \* HashMap<Address, (U256, U256)>
    collateral_balances,  \* HashMap<Address, U256>
    total_collateral,
    current_user,         \* AuthManager.current_user: Option<Address>
    now,                  \* SystemTime::now() in seconds
    registered_oracles,   \* OracleManagerState.registered_oracles (keys)
    market_outcomes,      \* OracleManagerState.market_outcomes
    last,                 \* the last operation and its result
    claimed,              \* history: callers whose claim_winnings returned Ok
    unpaired_burn,        \* history: a burn with yes_amount # no_amount returned Ok
    mint_debited,         \* history: collateral debited by mint_tokens
    claim_credited,       \* history: collateral credited by claim_winnings
    deposited,            \* history: collateral each user deposited
    inflight,             \* calls on the engine suspended at a gateway call
    background_status,    \* market.status of the engine the expiry task owns
    call_args,            \* history: the last call traced with its arguments
    markets,              \* MarketFactoryState.markets
    oracle_whitelist,     \* MarketFactoryState.oracle_whitelist
    next_market_id,       \* MarketFactoryState.next_market_id
    listing_fee           \* MarketFactoryState.listing_fee

vars == <<market, yes_token_supply, no_token_supply, user_balances,
          collateral_balances, total_collateral, current_user, now,
          registered_oracles, market_outcomes, last, claimed, unpaired_burn,
          mint_debited, claim_credited, deposited, inflight,
          background_status, call_args, markets, oracle_whitelist,
          next_market_id, listing_fee>>

ledger == <<market, yes_token_supply, no_token_supply, user_balances,
            collateral_balances, total_collateral>>

registry == <<registered_oracles, market_outcomes>>

token_history == <<claimed, unpaired_burn, mint_debited, claim_credited>>

history == <<token_history, deposited>>

tasks == <<inflight, background_status, call_args>>

factory == <<markets, oracle_whitelist, next_market_id, listing_fee>>

\* an engine that callers share, with no exclusive borrow
engine_borrowed_never == FALSE

\* &mut self: a call in flight holds the engine exclusively until it returns
engine_borrowed == inflight # <<>>

\* ---------------------------------------------------------------- HashMap
Get(m, k, default) == IF k \in DOMAIN m THEN m[k] ELSE default

Put(m, k, v) == [x \in (DOMAIN m) \cup {k} |-> IF x = k THEN v ELSE m[x]]

\* a remove that leaves the entry in the map
Remove_entry_kept(m, k) == m

\* HashMap::remove
Remove(m, k) == [x \in (DOMAIN m) \ {k} |-> m[x]]

EmptyMap == [x \in {} |-> 0]

RECURSIVE SumOver(_, _)
SumOver(m, keys) ==
    IF keys = {} THEN 0
    ELSE LET k == CHOOSE x \in keys : TRUE
         IN m[k] + SumOver(m, keys \ {k})

\* sum(collateral_balances.values())
SumValues(m) == SumOver(m, DOMAIN m)

Max(a, b) == IF a >= b THEN a ELSE b

Abs(x) == IF x < 0 THEN 0 - x ELSE x

\* ------------------------------------------------------- operation result
Ret(op, result) ==
    [op |-> op, result |-> result, amount |-> 0, required |-> 0, ret |-> 0,
     before |-> <<>>, side |-> "", market_id |-> ""]

RetAmt(op, result, amount) ==
    [op |-> op, result |-> result, amount |-> amount, required |-> 0, ret |-> 0,
     before |-> <<>>, side |-> "", market_id |-> ""]

\* an operation that returns before it changes anything
Return(op, result) ==
    /\ last' = Ret(op, result)
    /\ UNCHANGED <<ledger, current_user, now, registry, history>>

\* a registry call on market_id that returns before it changes anything
ReturnFor(op, result, market_id) ==
    /\ last' = [Ret(op, result) EXCEPT !.market_id = market_id]
    /\ UNCHANGED <<ledger, current_user, now, registry, history>>

\* --------------------------------------------------------------- identity
\* AuthManager::get_current_address
get_current_address == current_user

\* AuthManager::connect_wallet
connect_wallet(a) ==
    /\ current_user' = Some(a)
    /\ last' = Ret("connect_wallet", "Ok")
    /\ UNCHANGED <<ledger, now, registry, history>>

\* ------------------------------------------------------------------- time
Tick ==
    /\ now < ExpiryTimestamp
    /\ now' = now + 1
    /\ last' = Ret("tick", "Ok")
    /\ UNCHANGED <<ledger, current_user, registry, history, tasks, factory>>

\* ----------------------------------------------------------- margin model
\* U256 subtraction best_ask - best_bid panics when the book is crossed
spread_underflows(order_book) ==
    /\ order_book.bids # <<>> /\ order_book.asks # <<>>
    /\ (order_book.bids[1].price + order_book.asks[1].price) \div 2 # 0
    /\ order_book.asks[1].price < order_book.bids[1].price

\* MarketContractState::calculate_volatility_multiplier (in percent)
calculate_volatility_multiplier(order_book) ==
    IF order_book.bids = <<>> \/ order_book.asks = <<>> THEN 100
    ELSE LET best_bid == order_book.bids[1].price
             best_ask == order_book.asks[1].price
             mid_price == (best_bid + best_ask) \div 2
         IN IF mid_price = 0 THEN 100
            ELSE LET spread_bps == ((best_ask - best_bid) * 10000) \div mid_price
                 IN IF spread_bps < 50 THEN 100
                    ELSE IF spread_bps < 100 THEN 120
                    ELSE IF spread_bps < 200 THEN 150
                    ELSE 200

RECURSIVE order_margin(_)
order_margin(bids) ==
    IF bids = <<>> THEN 0
    ELSE ((Head(bids).size * Head(bids).price) * 20) \div 100
         + order_margin(Tail(bids))

\* MarketContractState::calculate_required_collateral
calculate_required_collateral(position, order_book) ==
    LET position_size == Abs(position.size)
        mark_price ==
            IF order_book.bids # <<>> /\ order_book.asks # <<>>
            THEN (order_book.bids[1].price + order_book.asks[1].price) \div 2
            ELSE position.entry_price
        position_value == position_size * mark_price
        maintenance_margin_rate == 10
        initial_margin_rate == 20
        volatility_multiplier == calculate_volatility_multiplier(order_book)
        position_margin ==
            (position_value * initial_margin_rate * volatility_multiplier) \div 100
        liquidation_buffer ==
            IF position_value > 0
            THEN (position_value * maintenance_margin_rate) \div 100
            ELSE 0
        total_required ==
            position_margin + order_margin(order_book.bids) + liquidation_buffer
        minimum_collateral == 100
    IN Max(total_required, minimum_collateral)

\* ------------------------------------------------------ collateral ledger
\* the answers of one exchange gateway call, drawn where the call is made
GatewayCall == BOOLEAN
DepositCall == {"ok", "transfer_error", "other_error"}

\* deposit_collateral that credits the ledger before the gateway answers
deposit_collateral_credit_first(amount) ==
    IF market.status # "Active" THEN Return("deposit_collateral", "MarketNotActive")
    ELSE IF get_current_address = None THEN Return("deposit_collateral", "AuthError")
    ELSE \E gw \in DepositCall :
        LET user_address == get_current_address[1]
        IN /\ total_collateral + amount <= MaxCollateral
           /\ collateral_balances' =
                  Put(collateral_balances, user_address,
                      Get(collateral_balances, user_address, 0) + amount)
           /\ total_collateral' = total_collateral + amount
           /\ last' = IF gw = "transfer_error"
                      THEN Ret("deposit_collateral", "CollateralTransferFailed")
                      ELSE IF gw # "ok"
                      THEN Ret("deposit_collateral", "HyperliquidError")
                      ELSE RetAmt("deposit_collateral", "Ok", amount)
           /\ deposited' = IF gw = "ok"
                           THEN Put(deposited, user_address,
                                    Get(deposited, user_address, 0) + amount)
                           ELSE deposited
           /\ UNCHANGED <<market, yes_token_supply, no_token_supply,
                          user_balances, current_user, now, registry,
                          token_history>>

\* deposit_collateral that credits the caller and leaves total_collateral
deposit_collateral_total_kept(amount) ==
    IF market.status # "Active" THEN Return("deposit_collateral", "MarketNotActive")
    ELSE IF get_current_address = None THEN Return("deposit_collateral", "AuthError")
    ELSE \E gw \in DepositCall :
        IF gw = "transfer_error"
        THEN Return("deposit_collateral", "CollateralTransferFailed")
        ELSE IF gw # "ok" THEN Return("deposit_collateral", "HyperliquidError")
        ELSE LET user_address == get_current_address[1]
             IN /\ total_collateral + amount <= MaxCollateral
                /\ collateral_balances' =
                       Put(collateral_balances, user_address,
                           Get(collateral_balances, user_address, 0) + amount)
                /\ last' = RetAmt("deposit_collateral", "Ok", amount)
                /\ deposited' = Put(deposited, user_address,
                                    Get(deposited, user_address, 0) + amount)
                /\ UNCHANGED <<market, yes_token_supply, no_token_supply,
                               user_balances, current_user, now, registry,
                               token_history, total_collateral>>

\* MarketContractState::deposit_collateral; the gateway answers
\* client.deposit_collateral with success, or with an error whose text does
\* or does not contain "transfer"
deposit_collateral(amount) ==
    IF market.status # "Active" THEN Return("deposit_collateral", "MarketNotActive")
    ELSE IF get_current_address = None THEN Return("deposit_collateral", "AuthError")
    ELSE \E gw \in DepositCall :
        IF gw = "transfer_error"
        THEN Return("deposit_collateral", "CollateralTransferFailed")
        ELSE IF gw # "ok" THEN Return("deposit_collateral", "HyperliquidError")
        ELSE LET user_address == get_current_address[1]
             IN /\ total_collateral + amount <= MaxCollateral
                /\ collateral_balances' =
                       Put(collateral_balances, user_address,
                           Get(collateral_balances, user_address, 0) + amount)
                /\ total_collateral' = total_collateral + amount
                /\ last' = RetAmt("deposit_collateral", "Ok", amount)
                /\ deposited' = Put(deposited, user_address,
                                    Get(deposited, user_address, 0) + amount)
                /\ UNCHANGED <<market, yes_token_supply, no_token_supply,
                               user_balances, current_user, now, registry,
                               token_history>>

\* withdraw_collateral without the test that the market is Active
withdraw_collateral_any_status(amount) ==
    IF get_current_address = None THEN Return("withdraw_collateral", "AuthError")
    ELSE LET user_address == get_current_address[1]
             balance == Get(collateral_balances, user_address, 0)
         IN IF balance < amount
            THEN /\ last' = RetAmt("withdraw_collateral",
                                   "WithdrawalExceedsBalance", amount)
                 /\ UNCHANGED <<ledger, current_user, now, registry, history>>
            ELSE \E pos \in PositionResults :
                IF pos = None
                THEN Return("withdraw_collateral", "HyperliquidError")
                ELSE \E book \in BookResults :
                IF book = None
                THEN Return("withdraw_collateral", "HyperliquidError")
                ELSE IF spread_underflows(book[1])
                THEN Return("withdraw_collateral", "Panic")
                ELSE LET required_collateral ==
                             calculate_required_collateral(pos[1], book[1])
                     IN IF balance - amount < required_collateral
                        THEN /\ last' = [Ret("withdraw_collateral",
                                             "InsufficientCollateral")
                                           EXCEPT !.amount = amount,
                                                  !.required = required_collateral]
                             /\ UNCHANGED <<ledger, current_user, now, registry,
                                            history>>
                        ELSE \E gw_ok \in GatewayCall :
                            IF ~gw_ok
                            THEN Return("withdraw_collateral", "HyperliquidError")
                            ELSE IF user_address \notin DOMAIN collateral_balances
                            THEN Return("withdraw_collateral", "Panic")
                            ELSE /\ collateral_balances' =
                                        [collateral_balances EXCEPT
                                            ![user_address] = @ - amount]
                                 /\ total_collateral' = total_collateral - amount
                                 /\ last' = [Ret("withdraw_collateral", "Ok")
                                               EXCEPT !.amount = amount,
                                                      !.required = required_collateral]
                                 /\ UNCHANGED <<market, yes_token_supply,
                                                no_token_supply, user_balances,
                                                current_user, now, registry, history>>

\* withdraw_collateral with the margin test alone, made on the amount and the
\* requirement together
withdraw_collateral_margin_first(amount) ==
    IF market.status # "Active" THEN Return("withdraw_collateral", "MarketNotActive")
    ELSE IF get_current_address = None THEN Return("withdraw_collateral", "AuthError")
    ELSE LET user_address == get_current_address[1]
             balance == Get(collateral_balances, user_address, 0)
         IN \E pos \in PositionResults :
                IF pos = None
                THEN Return("withdraw_collateral", "HyperliquidError")
                ELSE \E book \in BookResults :
                IF book = None
                THEN Return("withdraw_collateral", "HyperliquidError")
                ELSE IF spread_underflows(book[1])
                THEN Return("withdraw_collateral", "Panic")
                ELSE LET required_collateral ==
                             calculate_required_collateral(pos[1], book[1])
                     IN IF balance < amount + required_collateral
                        THEN /\ last' = [Ret("withdraw_collateral",
                                             "InsufficientCollateral")
                                           EXCEPT !.amount = amount,
                                                  !.required = required_collateral]
                             /\ UNCHANGED <<ledger, current_user, now, registry,
                                            history>>
                        ELSE \E gw_ok \in GatewayCall :
                            IF ~gw_ok
                            THEN Return("withdraw_collateral", "HyperliquidError")
                            ELSE IF user_address \notin DOMAIN collateral_balances
                            THEN Return("withdraw_collateral", "Panic")
                            ELSE /\ collateral_balances' =
                                        [collateral_balances EXCEPT
                                            ![user_address] = @ - amount]
                                 /\ total_collateral' = total_collateral - amount
                                 /\ last' = [Ret("withdraw_collateral", "Ok")
                                               EXCEPT !.amount = amount,
                                                      !.required = required_collateral]
                                 /\ UNCHANGED <<market, yes_token_supply,
                                                no_token_supply, user_balances,
                                                current_user, now, registry, history>>

\* withdraw_collateral with the margin test made on the balance before the
\* withdrawal instead of the balance after it
withdraw_collateral_margin_before(amount) ==
    IF market.status # "Active" THEN Return("withdraw_collateral", "MarketNotActive")
    ELSE IF get_current_address = None THEN Return("withdraw_collateral", "AuthError")
    ELSE LET user_address == get_current_address[1]
             balance == Get(collateral_balances, user_address, 0)
         IN IF balance < amount
            THEN /\ last' = RetAmt("withdraw_collateral",
                                   "WithdrawalExceedsBalance", amount)
                 /\ UNCHANGED <<ledger, current_user, now, registry, history>>
            ELSE \E pos \in PositionResults :
                IF pos = None
                THEN Return("withdraw_collateral", "HyperliquidError")
                ELSE \E book \in BookResults :
                IF book = None
                THEN Return("withdraw_collateral", "HyperliquidError")
                ELSE IF spread_underflows(book[1])
                THEN Return("withdraw_collateral", "Panic")
                ELSE LET required_collateral ==
                             calculate_required_collateral(pos[1], book[1])
                     IN IF balance < required_collateral
                        THEN /\ last' = [Ret("withdraw_collateral",
                                             "InsufficientCollateral")
                                           EXCEPT !.amount = amount,
                                                  !.required = required_collateral]
                             /\ UNCHANGED <<ledger, current_user, now, registry,
                                            history>>
                        ELSE \E gw_ok \in GatewayCall :
                            IF ~gw_ok
                            THEN Return("withdraw_collateral", "HyperliquidError")
                            ELSE IF user_address \notin DOMAIN collateral_balances
                            THEN Return("withdraw_collateral", "Panic")
                            ELSE /\ collateral_balances' =
                                        [collateral_balances EXCEPT
                                            ![user_address] = @ - amount]
                                 /\ total_collateral' = total_collateral - amount
                                 /\ last' = [Ret("withdraw_collateral", "Ok")
                                               EXCEPT !.amount = amount,
                                                      !.required = required_collateral]
                                 /\ UNCHANGED <<market, yes_token_supply,
                                                no_token_supply, user_balances,
                                                current_user, now, registry, history>>

\* MarketContractState::withdraw_collateral
withdraw_collateral(amount) ==
    IF market.status # "Active" THEN Return("withdraw_collateral", "MarketNotActive")
    ELSE IF get_current_address = None THEN Return("withdraw_collateral", "AuthError")
    ELSE LET user_address == get_current_address[1]
             balance == Get(collateral_balances, user_address, 0)
         IN IF balance < amount
            THEN /\ last' = RetAmt("withdraw_collateral",
                                   "WithdrawalExceedsBalance", amount)
                 /\ UNCHANGED <<ledger, current_user, now, registry, history>>
            ELSE \E pos \in PositionResults :
                IF pos = None
                THEN Return("withdraw_collateral", "HyperliquidError")
                ELSE \E book \in BookResults :
                IF book = None
                THEN Return("withdraw_collateral", "HyperliquidError")
                ELSE IF spread_underflows(book[1])
                THEN Return("withdraw_collateral", "Panic")
                ELSE LET required_collateral ==
                             calculate_required_collateral(pos[1], book[1])
                     IN IF balance - amount < required_collateral
                        THEN /\ last' = [Ret("withdraw_collateral",
                                             "InsufficientCollateral")
                                           EXCEPT !.amount = amount,
                                                  !.required = required_collateral]
                             /\ UNCHANGED <<ledger, current_user, now, registry,
                                            history>>
                        ELSE \E gw_ok \in GatewayCall :
                            IF ~gw_ok
                            THEN Return("withdraw_collateral", "HyperliquidError")
                            ELSE IF user_address \notin DOMAIN collateral_balances
                            THEN Return("withdraw_collateral", "Panic")
                            ELSE /\ collateral_balances' =
                                        [collateral_balances EXCEPT
                                            ![user_address] = @ - amount]
                                 /\ total_collateral' = total_collateral - amount
                                 /\ last' = [Ret("withdraw_collateral", "Ok")
                                               EXCEPT !.amount = amount,
                                                      !.required = required_collateral]
                                 /\ UNCHANGED <<market, yes_token_supply,
                                                no_token_supply, user_balances,
                                                current_user, now, registry, history>>

\* ----------------------------------------------------------- token ledger
\* mint_tokens that issues the YES side only
mint_tokens_yes_only(amount) ==
    IF market.status # "Active" THEN Return("mint_tokens", "MarketNotActive")
    ELSE IF get_current_address = None THEN Return("mint_tokens", "AuthError")
    ELSE LET user_address == get_current_address[1]
             user_balance == Get(user_balances, user_address, <<0, 0>>)
         IN /\ yes_token_supply + amount <= MaxSupply
            /\ no_token_supply + amount <= MaxSupply
            /\ yes_token_supply' = yes_token_supply + amount
            /\ no_token_supply' = no_token_supply
            /\ user_balances' =
                   Put(user_balances, user_address,
                       <<user_balance[1] + amount, user_balance[2]>>)
            /\ last' = [RetAmt("mint_tokens", "Ok", amount) EXCEPT
                           !.before = <<yes_token_supply, no_token_supply,
                                        user_balance>>]
            /\ UNCHANGED <<market, collateral_balances, total_collateral,
                           current_user, now, registry, history>>

\* MarketContractState::mint_tokens, the inherent method: the one that
\* market_contract.mint_tokens(amount) resolves to
mint_tokens(amount) ==
    IF market.status # "Active" THEN Return("mint_tokens", "MarketNotActive")
    ELSE IF get_current_address = None THEN Return("mint_tokens", "AuthError")
    ELSE LET user_address == get_current_address[1]
             user_balance == Get(user_balances, user_address, <<0, 0>>)
         IN /\ yes_token_supply + amount <= MaxSupply
            /\ no_token_supply + amount <= MaxSupply
            /\ yes_token_supply' = yes_token_supply + amount
            /\ no_token_supply' = no_token_supply + amount
            /\ user_balances' =
                   Put(user_balances, user_address,
                       <<user_balance[1] + amount, user_balance[2] + amount>>)
            /\ last' = [RetAmt("mint_tokens", "Ok", amount) EXCEPT
                           !.before = <<yes_token_supply, no_token_supply,
                                        user_balance>>]
            /\ UNCHANGED <<market, collateral_balances, total_collateral,
                           current_user, now, registry, history>>

\* <MarketContractState as MarketContract>::mint_tokens, the trait method;
\* the gateway call stands for mint_tokens_with_auth followed by the two
\* place_order_with_auth calls: the first failure returns HyperliquidError
MarketContract_mint_tokens(amount) ==
    IF market.status # "Active"
    THEN Return("MarketContract_mint_tokens", "MarketNotActive")
    ELSE IF get_current_address = None
    THEN Return("MarketContract_mint_tokens", "AuthError")
    ELSE LET user_address == get_current_address[1]
             collateral_required == amount
             user_collateral == Get(collateral_balances, user_address, 0)
             balance == Get(user_balances, user_address, <<0, 0>>)
         IN IF user_collateral < collateral_required
            THEN /\ last' = RetAmt("MarketContract_mint_tokens",
                                   "InsufficientCollateral", amount)
                 /\ UNCHANGED <<ledger, current_user, now, registry, history>>
            ELSE \E gw_ok \in GatewayCall :
                IF ~gw_ok
                THEN Return("MarketContract_mint_tokens", "HyperliquidError")
                ELSE IF user_address \notin DOMAIN collateral_balances
                THEN Return("MarketContract_mint_tokens", "Panic")
                ELSE /\ yes_token_supply + amount <= MaxSupply
                     /\ no_token_supply + amount <= MaxSupply
                     /\ mint_debited + collateral_required <= MaxSupply
                     /\ collateral_balances' =
                            [collateral_balances EXCEPT
                                ![user_address] = @ - collateral_required]
                     /\ yes_token_supply' = yes_token_supply + amount
                     /\ no_token_supply' = no_token_supply + amount
                     /\ user_balances' =
                            Put(user_balances, user_address,
                                <<balance[1] + amount, balance[2] + amount>>)
                     /\ mint_debited' = mint_debited + collateral_required
                     /\ last' = [RetAmt("MarketContract_mint_tokens", "Ok",
                                        amount) EXCEPT
                                    !.before = <<yes_token_supply,
                                                 no_token_supply, balance>>]
                     /\ UNCHANGED <<market, total_collateral, current_user, now,
                                    registry, claimed, unpaired_burn, claim_credited,
                                    deposited>>

\* burn_tokens that tests the NO balance of the caller only
burn_tokens_no_side_only(yes_amount, no_amount) ==
    IF market.status # "Active" THEN Return("burn_tokens", "MarketNotActive")
    ELSE IF get_current_address = None THEN Return("burn_tokens", "AuthError")
    ELSE LET user_address == get_current_address[1]
         IN IF user_address \notin DOMAIN user_balances
            THEN Return("burn_tokens", "InsufficientBalance")
            ELSE LET balance == user_balances[user_address]
                 IN IF balance[2] < no_amount
                    THEN Return("burn_tokens", "InsufficientBalance")
                    ELSE \E gw_ok \in GatewayCall :
                        IF ~gw_ok
                        THEN Return("burn_tokens", "HyperliquidError")
                        ELSE IF yes_token_supply < yes_amount
                                \/ no_token_supply < no_amount
                        THEN Return("burn_tokens", "Panic")
                        ELSE /\ yes_token_supply' = yes_token_supply - yes_amount
                             /\ no_token_supply' = no_token_supply - no_amount
                             /\ user_balances' =
                                    [user_balances EXCEPT ![user_address] =
                                        <<balance[1] - yes_amount,
                                          balance[2] - no_amount>>]
                             /\ unpaired_burn' =
                                    (unpaired_burn \/ yes_amount # no_amount)
                             /\ last' = [Ret("burn_tokens", "Ok")
                                           EXCEPT !.amount = yes_amount,
                                                  !.ret = no_amount]
                             /\ UNCHANGED <<market, collateral_balances,
                                            total_collateral, current_user, now,
                                            registry, claimed, mint_debited,
                                            claim_credited, deposited>>

\* burn_tokens that reduces the supplies and leaves the NO balance of the
\* caller as it was
burn_tokens_no_balance_kept(yes_amount, no_amount) ==
    IF market.status # "Active" THEN Return("burn_tokens", "MarketNotActive")
    ELSE IF get_current_address = None THEN Return("burn_tokens", "AuthError")
    ELSE LET user_address == get_current_address[1]
         IN IF user_address \notin DOMAIN user_balances
            THEN Return("burn_tokens", "InsufficientBalance")
            ELSE LET balance == user_balances[user_address]
                 IN IF balance[1] < yes_amount \/ balance[2] < no_amount
                    THEN Return("burn_tokens", "InsufficientBalance")
                    ELSE \E gw_ok \in GatewayCall :
                        IF ~gw_ok
                        THEN Return("burn_tokens", "HyperliquidError")
                        ELSE IF yes_token_supply < yes_amount
                                \/ no_token_supply < no_amount
                        THEN Return("burn_tokens", "Panic")
                        ELSE /\ yes_token_supply' = yes_token_supply - yes_amount
                             /\ no_token_supply' = no_token_supply - no_amount
                             /\ user_balances' =
                                    [user_balances EXCEPT ![user_address] =
                                        <<balance[1] - yes_amount,
                                          balance[2]>>]
                             /\ unpaired_burn' =
                                    (unpaired_burn \/ yes_amount # no_amount)
                             /\ last' = [Ret("burn_tokens", "Ok")
                                           EXCEPT !.amount = yes_amount,
                                                  !.ret = no_amount]
                             /\ UNCHANGED <<market, collateral_balances,
                                            total_collateral, current_user, now,
                                            registry, claimed, mint_debited,
                                            claim_credited, deposited>>

\* MarketContractState::burn_tokens (the trait method is the same code)
burn_tokens(yes_amount, no_amount) ==
    IF market.status # "Active" THEN Return("burn_tokens", "MarketNotActive")
    ELSE IF get_current_address = None THEN Return("burn_tokens", "AuthError")
    ELSE LET user_address == get_current_address[1]
         IN IF user_address \notin DOMAIN user_balances
            THEN Return("burn_tokens", "InsufficientBalance")
            ELSE LET balance == user_balances[user_address]
                 IN IF balance[1] < yes_amount \/ balance[2] < no_amount
                    THEN Return("burn_tokens", "InsufficientBalance")
                    ELSE \E gw_ok \in GatewayCall :
                        IF ~gw_ok
                        THEN Return("burn_tokens", "HyperliquidError")
                        ELSE IF yes_token_supply < yes_amount
                                \/ no_token_supply < no_amount
                        THEN Return("burn_tokens", "Panic")
                        ELSE /\ yes_token_supply' = yes_token_supply - yes_amount
                             /\ no_token_supply' = no_token_supply - no_amount
                             /\ user_balances' =
                                    [user_balances EXCEPT ![user_address] =
                                        <<balance[1] - yes_amount,
                                          balance[2] - no_amount>>]
                             /\ unpaired_burn' =
                                    (unpaired_burn \/ yes_amount # no_amount)
                             /\ last' = [Ret("burn_tokens", "Ok")
                                           EXCEPT !.amount = yes_amount,
                                                  !.ret = no_amount]
                             /\ UNCHANGED <<market, collateral_balances,
                                            total_collateral, current_user, now,
                                            registry, claimed, mint_debited,
                                            claim_credited, deposited>>

\* ----------------------------------------------------------------- orders
\* MarketContractState::validate_order: "Ok" or the error it returns
validate_order(order_book, side, price, amount) ==
    IF amount < 1 THEN "InvalidAmount"
    ELSE IF side = "Buy"
    THEN IF order_book.asks # <<>>
            /\ price > (order_book.asks[1].price * 110) \div 100
         THEN "InvalidOrder" ELSE "Ok"
    ELSE IF order_book.bids # <<>>
            /\ price < (order_book.bids[1].price * 90) \div 100
         THEN "InvalidOrder" ELSE "Ok"

\* place_order that tests the collateral against the margin of the position
\* alone, without the price * amount of the order
place_order_margin_only(side, price, amount) ==
    IF market.status # "Active" THEN Return("place_order", "MarketNotActive")
    ELSE IF get_current_address = None THEN Return("place_order", "AuthError")
    ELSE LET user_address == get_current_address[1]
             balance == Get(user_balances, user_address, <<0, 0>>)
             required_collateral == price * amount
             user_collateral == Get(collateral_balances, user_address, 0)
         IN IF (side = "Buy" /\ balance[2] < amount)
               \/ (side = "Sell" /\ balance[1] < amount)
            THEN Return("place_order", "InsufficientBalance")
            ELSE \E pos \in PositionResults :
                IF pos = None
                THEN Return("place_order", "HyperliquidError")
                ELSE \E book \in BookResults :
                IF book = None
                THEN Return("place_order", "HyperliquidError")
                ELSE IF spread_underflows(book[1])
                THEN Return("place_order", "Panic")
                ELSE LET current_required_collateral ==
                             calculate_required_collateral(pos[1], book[1])
                         total_required ==
                             current_required_collateral + required_collateral
                     IN IF user_collateral < current_required_collateral
                        THEN Return("place_order", "InsufficientCollateral")
                        ELSE \E order_book \in BookResults :
                            IF order_book = None
                            THEN Return("place_order", "HyperliquidError")
                            ELSE IF validate_order(order_book[1], side, price, amount)
                                    # "Ok"
                            THEN Return("place_order",
                                        validate_order(order_book[1], side, price,
                                                       amount))
                            ELSE \E gw_ok \in GatewayCall :
                                IF ~gw_ok
                                THEN Return("place_order", "OrderPlacementFailed")
                                ELSE /\ collateral_balances' =
                                            [collateral_balances EXCEPT
                                                ![user_address] =
                                                    @ - required_collateral]
                                     /\ last' =
                                            [Ret("place_order", "Ok") EXCEPT
                                                !.side = side,
                                                !.amount = required_collateral,
                                                !.required =
                                                    current_required_collateral]
                                     /\ UNCHANGED <<market, yes_token_supply,
                                                    no_token_supply, user_balances,
                                                    total_collateral, current_user,
                                                    now, registry, history>>

\* MarketContractState::place_order
place_order(side, price, amount) ==
    IF market.status # "Active" THEN Return("place_order", "MarketNotActive")
    ELSE IF get_current_address = None THEN Return("place_order", "AuthError")
    ELSE LET user_address == get_current_address[1]
             balance == Get(user_balances, user_address, <<0, 0>>)
             required_collateral == price * amount
             user_collateral == Get(collateral_balances, user_address, 0)
         IN IF (side = "Buy" /\ balance[2] < amount)
               \/ (side = "Sell" /\ balance[1] < amount)
            THEN Return("place_order", "InsufficientBalance")
            ELSE \E pos \in PositionResults :
                IF pos = None
                THEN Return("place_order", "HyperliquidError")
                ELSE \E book \in BookResults :
                IF book = None
                THEN Return("place_order", "HyperliquidError")
                ELSE IF spread_underflows(book[1])
                THEN Return("place_order", "Panic")
                ELSE LET current_required_collateral ==
                             calculate_required_collateral(pos[1], book[1])
                         total_required ==
                             current_required_collateral + required_collateral
                     IN IF user_collateral < total_required
                        THEN Return("place_order", "InsufficientCollateral")
                        ELSE \E order_book \in BookResults :
                            IF order_book = None
                            THEN Return("place_order", "HyperliquidError")
                            ELSE IF validate_order(order_book[1], side, price, amount)
                                    # "Ok"
                            THEN Return("place_order",
                                        validate_order(order_book[1], side, price,
                                                       amount))
                            ELSE \E gw_ok \in GatewayCall :
                                IF ~gw_ok
                                THEN Return("place_order", "OrderPlacementFailed")
                                ELSE /\ collateral_balances' =
                                            [collateral_balances EXCEPT
                                                ![user_address] =
                                                    @ - required_collateral]
                                     /\ last' =
                                            [Ret("place_order", "Ok") EXCEPT
                                                !.side = side,
                                                !.amount = required_collateral,
                                                !.required =
                                                    current_required_collateral]
                                     /\ UNCHANGED <<market, yes_token_supply,
                                                    no_token_supply, user_balances,
                                                    total_collateral, current_user,
                                                    now, registry, history>>

\* cancel_order without the test that the market is Active
cancel_order_any_status ==
    IF get_current_address = None THEN Return("cancel_order", "AuthError")
    ELSE \E gw_ok \in GatewayCall :
        IF ~gw_ok THEN Return("cancel_order", "OrderCancellationFailed")
        ELSE Return("cancel_order", "Ok")

\* MarketContractState::cancel_order
cancel_order ==
    IF market.status # "Active" THEN Return("cancel_order", "MarketNotActive")
    ELSE IF get_current_address = None THEN Return("cancel_order", "AuthError")
    ELSE \E gw_ok \in GatewayCall :
        IF ~gw_ok THEN Return("cancel_order", "OrderCancellationFailed")
        ELSE Return("cancel_order", "Ok")

\* cancel_all_user_orders that credits the caller's collateral back up to
\* what the caller deposited
cancel_all_user_orders_refunding ==
    IF market.status # "Active"
    THEN Return("cancel_all_user_orders", "MarketNotActive")
    ELSE IF get_current_address = None
    THEN Return("cancel_all_user_orders", "AuthError")
    ELSE \E gw_ok \in GatewayCall :
        IF ~gw_ok THEN Return("cancel_all_user_orders", "HyperliquidError")
        ELSE LET user_address == get_current_address[1]
             IN /\ collateral_balances' =
                       IF user_address \in DOMAIN deposited
                       THEN Put(collateral_balances, user_address,
                                deposited[user_address])
                       ELSE collateral_balances
                /\ last' = Ret("cancel_all_user_orders", "Ok")
                /\ UNCHANGED <<market, yes_token_supply, no_token_supply,
                               user_balances, total_collateral, current_user,
                               now, registry, history>>

\* MarketContractState::cancel_all_user_orders
cancel_all_user_orders ==
    IF market.status # "Active"
    THEN Return("cancel_all_user_orders", "MarketNotActive")
    ELSE IF get_current_address = None
    THEN Return("cancel_all_user_orders", "AuthError")
    ELSE \E gw_ok \in GatewayCall :
        IF ~gw_ok THEN Return("cancel_all_user_orders", "HyperliquidError")
        ELSE Return("cancel_all_user_orders", "Ok")

\* -------------------------------------------------------- oracle registry
initial_reputation == 100

\* an OracleManagerState as a value
OracleManagerState(oracles, outcomes) ==
    [registered_oracles |-> oracles, market_outcomes |-> outcomes]

\* OracleManagerState::new
OracleManagerState_new == OracleManagerState(EmptyMap, EmptyMap)

\* <OracleManagerState as OracleManager>::get_outcome
get_outcome(oracle_manager, market_id) ==
    IF market_id \in DOMAIN oracle_manager.market_outcomes
    THEN Some(oracle_manager.market_outcomes[market_id].outcome)
    ELSE None

\* a detached signature: who signed, and the message that was signed
Signatures ==
    [signer : Address, market_id : MarketIds, outcome : BOOLEAN,
     timestamp : 0..ExpiryTimestamp, oracle_id : Address]

\* the signatures callers present: made now, over a message that names the
\* signer as oracle
PresentedSignatures ==
    {s \in Signatures : s.oracle_id = s.signer /\ s.timestamp = now}

\* OracleManagerState::verify_signature
verify_signature(submission) ==
    /\ submission.oracle_id \in DOMAIN registered_oracles
    /\ submission.signature.signer = submission.oracle_id
    /\ submission.signature.market_id = submission.market_id
    /\ submission.signature.outcome = submission.outcome
    /\ submission.signature.timestamp = submission.timestamp
    /\ submission.signature.oracle_id = submission.oracle_id

\* <OracleManagerState as OracleManager>::register_oracle; the gateway call
\* is verify_admin_with_auth
register_oracle(address) ==
    IF get_current_address = None
    THEN Return("register_oracle", "AuthError")
    ELSE \E admin_ok \in GatewayCall :
      IF ~admin_ok
      THEN Return("register_oracle", "HyperliquidError")
      ELSE
         /\ registered_oracles' =
                IF address \in DOMAIN registered_oracles
                THEN registered_oracles
                ELSE Put(registered_oracles, address,
                         [reputation_score |-> initial_reputation,
                          total_submissions |-> 0])
         /\ last' = Ret("register_oracle", "Ok")
         /\ UNCHANGED <<ledger, current_user, now, market_outcomes, history>>

\* submit_outcome without the test that the market already has an outcome
submit_outcome_overwrites(market_id, outcome, signature) ==
    IF get_current_address = None
    THEN ReturnFor("submit_outcome", "AuthError", market_id)
    ELSE LET oracle_id == get_current_address[1]
             submission == [oracle_id |-> oracle_id, market_id |-> market_id,
                            outcome |-> outcome, timestamp |-> now,
                            signature |-> signature]
         IN IF oracle_id \notin DOMAIN registered_oracles
            THEN ReturnFor("submit_outcome", "OracleNotRegistered", market_id)
            ELSE IF ~verify_signature(submission)
            THEN ReturnFor("submit_outcome", "InvalidSignature", market_id)
            ELSE \E gw_ok \in GatewayCall :
              IF ~gw_ok
              THEN ReturnFor("submit_outcome", "HyperliquidError", market_id)
              ELSE
                 /\ market_outcomes' =
                        Put(market_outcomes, market_id,
                            [oracle_id |-> oracle_id, outcome |-> outcome])
                 /\ registered_oracles' =
                        [registered_oracles EXCEPT ![oracle_id] =
                            [reputation_score |-> @.reputation_score + 1,
                             total_submissions |-> @.total_submissions + 1]]
                 /\ last' = [Ret("submit_outcome", "Ok") EXCEPT
                                !.market_id = market_id]
                 /\ UNCHANGED <<ledger, current_user, now, history>>

\* submit_outcome without the test that the caller is a registered oracle
submit_outcome_unregistered(market_id, outcome, signature) ==
    IF get_current_address = None
    THEN ReturnFor("submit_outcome", "AuthError", market_id)
    ELSE LET oracle_id == get_current_address[1]
             submission == [oracle_id |-> oracle_id, market_id |-> market_id,
                            outcome |-> outcome, timestamp |-> now,
                            signature |-> signature]
         IN IF market_id \in DOMAIN market_outcomes
            THEN ReturnFor("submit_outcome", "OutcomeAlreadySubmitted", market_id)
            ELSE IF ~verify_signature(submission)
            THEN ReturnFor("submit_outcome", "InvalidSignature", market_id)
            ELSE \E gw_ok \in GatewayCall :
              IF ~gw_ok
              THEN ReturnFor("submit_outcome", "HyperliquidError", market_id)
              ELSE
                 /\ market_outcomes' =
                        Put(market_outcomes, market_id,
                            [oracle_id |-> oracle_id, outcome |-> outcome])
                 /\ registered_oracles' =
                        [registered_oracles EXCEPT ![oracle_id] =
                            [reputation_score |-> @.reputation_score + 1,
                             total_submissions |-> @.total_submissions + 1]]
                 /\ last' = [Ret("submit_outcome", "Ok") EXCEPT
                                !.market_id = market_id]
                 /\ UNCHANGED <<ledger, current_user, now, history>>

\* <OracleManagerState as OracleManager>::submit_outcome; the gateway call
\* is submit_oracle_update_with_auth
submit_outcome(market_id, outcome, signature) ==
    IF get_current_address = None
    THEN ReturnFor("submit_outcome", "AuthError", market_id)
    ELSE LET oracle_id == get_current_address[1]
             submission == [oracle_id |-> oracle_id, market_id |-> market_id,
                            outcome |-> outcome, timestamp |-> now,
                            signature |-> signature]
         IN IF oracle_id \notin DOMAIN registered_oracles
            THEN ReturnFor("submit_outcome", "OracleNotRegistered", market_id)
            ELSE IF market_id \in DOMAIN market_outcomes
            THEN ReturnFor("submit_outcome", "OutcomeAlreadySubmitted", market_id)
            ELSE IF ~verify_signature(submission)
            THEN ReturnFor("submit_outcome", "InvalidSignature", market_id)
            ELSE \E gw_ok \in GatewayCall :
              IF ~gw_ok
              THEN ReturnFor("submit_outcome", "HyperliquidError", market_id)
              ELSE
                 /\ market_outcomes' =
                        Put(market_outcomes, market_id,
                            [oracle_id |-> oracle_id, outcome |-> outcome])
                 /\ registered_oracles' =
                        [registered_oracles EXCEPT ![oracle_id] =
                            [reputation_score |-> @.reputation_score + 1,
                             total_submissions |-> @.total_submissions + 1]]
                 /\ last' = [Ret("submit_outcome", "Ok") EXCEPT
                                !.market_id = market_id]
                 /\ UNCHANGED <<ledger, current_user, now, history>>

\* -------------------------------------------------------------- lifecycle
\* MarketContractState::set_market_status
set_market_status(status) == [market EXCEPT !.status = status]

\* check_expiry without the test that the market is still Active
check_expiry_any_status ==
    IF now >= market.expiry_timestamp
    THEN /\ market' = set_market_status("Expired")
         /\ last' = Ret("check_expiry",
                        IF get_current_address = None THEN "AuthError" ELSE "Ok")
         /\ UNCHANGED <<yes_token_supply, no_token_supply, user_balances,
                        collateral_balances, total_collateral, current_user, now,
                        registry, history>>
    ELSE Return("check_expiry", "Ok")

\* check_expiry that does not read the clock
check_expiry_any_time ==
    IF market.status = "Active"
    THEN /\ market' = set_market_status("Expired")
         /\ last' = Ret("check_expiry",
                        IF get_current_address = None THEN "AuthError" ELSE "Ok")
         /\ UNCHANGED <<yes_token_supply, no_token_supply, user_balances,
                        collateral_balances, total_collateral, current_user, now,
                        registry, history>>
    ELSE Return("check_expiry", "Ok")

\* MarketContractState::check_expiry
check_expiry ==
    IF now >= market.expiry_timestamp /\ market.status = "Active"
    THEN /\ market' = set_market_status("Expired")
         /\ last' = Ret("check_expiry",
                        IF get_current_address = None THEN "AuthError" ELSE "Ok")
         /\ UNCHANGED <<yes_token_supply, no_token_supply, user_balances,
                        collateral_balances, total_collateral, current_user, now,
                        registry, history>>
    ELSE Return("check_expiry", "Ok")

\* MarketContractState::get_oracle_manager: a new OracleManagerState on
\* every call
get_oracle_manager == OracleManagerState_new

\* the registry that submit_outcome writes, handed to the engine
registry_oracle_manager == OracleManagerState(registered_oracles, market_outcomes)

\* MarketContractState::get_oracle_outcome
get_oracle_outcome(oracle_manager) == get_outcome(oracle_manager, market.yes_token_address)

\* resolve that sets the status and leaves resolved_outcome as it was
resolve_outcome_not_stored(oracle_manager) ==
    IF market.status # "Expired" THEN Return("resolve", "MarketNotExpired")
    ELSE IF get_current_address = None THEN Return("resolve", "AuthError")
    ELSE IF AddrDebug(get_current_address[1]) # market.oracle_id
    THEN Return("resolve", "InvalidOracle")
    ELSE IF market.resolved_outcome # None
    THEN Return("resolve", "MarketAlreadyResolved")
    ELSE IF get_oracle_outcome(oracle_manager) = None
    THEN Return("resolve", "MarketNotResolved")
    ELSE \E gw_ok \in GatewayCall :
      IF ~gw_ok
      THEN Return("resolve", "HyperliquidError")
      ELSE
         /\ market' = set_market_status("Resolved")
         /\ last' = Ret("resolve", "Ok")
         /\ UNCHANGED <<yes_token_supply, no_token_supply, user_balances,
                        collateral_balances, total_collateral, current_user, now,
                        registry, history>>

\* resolve without the test that the caller is the designated oracle
resolve_any_caller(oracle_manager) ==
    IF market.status # "Expired" THEN Return("resolve", "MarketNotExpired")
    ELSE IF get_current_address = None THEN Return("resolve", "AuthError")
    ELSE IF market.resolved_outcome # None
    THEN Return("resolve", "MarketAlreadyResolved")
    ELSE IF get_oracle_outcome(oracle_manager) = None
    THEN Return("resolve", "MarketNotResolved")
    ELSE \E gw_ok \in GatewayCall :
      IF ~gw_ok
      THEN Return("resolve", "HyperliquidError")
      ELSE
         /\ market' = [set_market_status("Resolved") EXCEPT
                          !.resolved_outcome = get_oracle_outcome(oracle_manager)]
         /\ last' = Ret("resolve", "Ok")
         /\ UNCHANGED <<yes_token_supply, no_token_supply, user_balances,
                        collateral_balances, total_collateral, current_user, now,
                        registry, history>>

\* MarketContractState::resolve (the trait method is the same code);
\* oracle_manager: what get_oracle_manager returned; the gateway call is
\* cancel_all_orders
resolve(oracle_manager) ==
    IF market.status # "Expired" THEN Return("resolve", "MarketNotExpired")
    ELSE IF get_current_address = None THEN Return("resolve", "AuthError")
    ELSE IF AddrDebug(get_current_address[1]) # market.oracle_id
    THEN Return("resolve", "InvalidOracle")
    ELSE IF market.resolved_outcome # None
    THEN Return("resolve", "MarketAlreadyResolved")
    ELSE IF get_oracle_outcome(oracle_manager) = None
    THEN Return("resolve", "MarketNotResolved")
    ELSE \E gw_ok \in GatewayCall :
      IF ~gw_ok
      THEN Return("resolve", "HyperliquidError")
      ELSE
         /\ market' = [set_market_status("Resolved") EXCEPT
                          !.resolved_outcome = get_oracle_outcome(oracle_manager)]
         /\ last' = Ret("resolve", "Ok")
         /\ UNCHANGED <<yes_token_supply, no_token_supply, user_balances,
                        collateral_balances, total_collateral, current_user, now,
                        registry, history>>

\* settlement price of claim_winnings
settlement_price(outcome) == IF outcome THEN 1 ELSE 0

\* claim_winnings that removes the caller's entry and leaves the supplies
claim_winnings_supply_kept ==
    IF market.status # "Resolved" THEN Return("claim_winnings", "MarketNotResolved")
    ELSE IF get_current_address = None THEN Return("claim_winnings", "AuthError")
    ELSE LET user_address == get_current_address[1]
         IN IF user_address \notin DOMAIN user_balances
            THEN Return("claim_winnings", "InsufficientBalance")
            ELSE IF market.resolved_outcome = None
            THEN Return("claim_winnings", "Panic")
            ELSE LET balance == user_balances[user_address]
                     outcome == market.resolved_outcome[1]
                     winning_amount == IF outcome THEN balance[1] ELSE balance[2]
                     collateral_to_return == winning_amount * settlement_price(outcome)
                 IN IF winning_amount = 0
                    THEN Return("claim_winnings", "InsufficientBalance")
                    ELSE \E pos_ok \in GatewayCall, cancel_ok \in GatewayCall,
                            settle_ok \in GatewayCall :
                      IF ~pos_ok \/ ~cancel_ok
                      THEN Return("claim_winnings", "HyperliquidError")
                      ELSE IF ~settle_ok
                      THEN Return("claim_winnings", "MarketSettlementFailed")
                      ELSE IF yes_token_supply < balance[1] \/ no_token_supply < balance[2]
                    THEN Return("claim_winnings", "Panic")
                    ELSE /\ collateral_balances' =
                                IF collateral_to_return > 0
                                THEN Put(collateral_balances, user_address,
                                         Get(collateral_balances, user_address, 0)
                                             + collateral_to_return)
                                ELSE collateral_balances
                         /\ user_balances' = Remove(user_balances, user_address)
                         /\ UNCHANGED <<yes_token_supply, no_token_supply>>
                         /\ claimed' = claimed \cup {user_address}
                         /\ claim_credited' = claim_credited + collateral_to_return
                         /\ last' = [Ret("claim_winnings", "Ok")
                                       EXCEPT !.amount = collateral_to_return,
                                              !.ret = winning_amount]
                         /\ UNCHANGED <<market, total_collateral, current_user, now,
                                        registry, unpaired_burn, mint_debited,
                                        deposited>>

\* MarketContractState::claim_winnings (the trait method is the same code);
\* the gateway calls are get_user_position, cancel_all_orders, settle_market
claim_winnings ==
    IF market.status # "Resolved" THEN Return("claim_winnings", "MarketNotResolved")
    ELSE IF get_current_address = None THEN Return("claim_winnings", "AuthError")
    ELSE LET user_address == get_current_address[1]
         IN IF user_address \notin DOMAIN user_balances
            THEN Return("claim_winnings", "InsufficientBalance")
            ELSE IF market.resolved_outcome = None
            THEN Return("claim_winnings", "Panic")
            ELSE LET balance == user_balances[user_address]
                     outcome == market.resolved_outcome[1]
                     winning_amount == IF outcome THEN balance[1] ELSE balance[2]
                     collateral_to_return == winning_amount * settlement_price(outcome)
                 IN IF winning_amount = 0
                    THEN Return("claim_winnings", "InsufficientBalance")
                    ELSE \E pos_ok \in GatewayCall, cancel_ok \in GatewayCall,
                            settle_ok \in GatewayCall :
                      IF ~pos_ok \/ ~cancel_ok
                      THEN Return("claim_winnings", "HyperliquidError")
                      ELSE IF ~settle_ok
                      THEN Return("claim_winnings", "MarketSettlementFailed")
                      ELSE IF yes_token_supply < balance[1] \/ no_token_supply < balance[2]
                    THEN Return("claim_winnings", "Panic")
                    ELSE /\ collateral_balances' =
                                IF collateral_to_return > 0
                                THEN Put(collateral_balances, user_address,
                                         Get(collateral_balances, user_address, 0)
                                             + collateral_to_return)
                                ELSE collateral_balances
                         /\ user_balances' = Remove(user_balances, user_address)
                         /\ yes_token_supply' = yes_token_supply - balance[1]
                         /\ no_token_supply' = no_token_supply - balance[2]
                         /\ claimed' = claimed \cup {user_address}
                         /\ claim_credited' = claim_credited + collateral_to_return
                         /\ last' = [Ret("claim_winnings", "Ok")
                                       EXCEPT !.amount = collateral_to_return,
                                              !.ret = winning_amount]
                         /\ UNCHANGED <<market, total_collateral, current_user, now,
                                        registry, unpaired_burn, mint_debited,
                                        deposited>>

\* ---------------------------------------------------------- specification
\* the market as MarketFactoryState::create_market stores it, in an engine
\* and beside a registry and a factory that were just constructed
Constructed ==
    /\ market = [status |-> "Active", expiry_timestamp |-> ExpiryTimestamp,
                 oracle_id |-> AddrDebug(1), yes_token_address |-> YES_TOKEN,
                 resolved_outcome |-> None]
    /\ yes_token_supply = 0
    /\ no_token_supply = 0
    /\ user_balances = EmptyMap
    /\ collateral_balances = EmptyMap
    /\ total_collateral = 0
    /\ current_user = None
    /\ now = 0
    /\ registered_oracles = EmptyMap
    /\ market_outcomes = EmptyMap
    /\ last = Ret("new", "Ok")
    /\ claimed = {}
    /\ unpaired_burn = FALSE
    /\ mint_debited = 0
    /\ claim_credited = 0
    /\ deposited = EmptyMap
    /\ inflight = <<>>
    /\ background_status = "Active"
    /\ call_args = <<>>
    /\ markets = EmptyMap
    /\ oracle_whitelist = <<>>
    /\ next_market_id = 0

\* the listing fee the factory is constructed with
ListingFee == 100

Init == Constructed /\ listing_fee = ListingFee

ConnectWallet ==
    /\ \E a \in Address : connect_wallet(a)
    /\ UNCHANGED <<tasks, factory>>

DepositCollateral ==
    /\ ~engine_borrowed
    /\ \E amount \in DepositAmounts : deposit_collateral(amount)
    /\ UNCHANGED <<tasks, factory>>

WithdrawCollateral ==
    /\ ~engine_borrowed
    /\ \E amount \in WithdrawAmounts : withdraw_collateral(amount)
    /\ UNCHANGED <<tasks, factory>>

MintTokens ==
    /\ ~engine_borrowed
    /\ \E amount \in MintAmounts : mint_tokens(amount)
    /\ UNCHANGED <<tasks, factory>>

MarketContractMintTokens ==
    /\ ~engine_borrowed
    /\ \E amount \in MintAmounts : MarketContract_mint_tokens(amount)
    /\ UNCHANGED <<tasks, factory>>

BurnTokens ==
    /\ ~engine_borrowed
    /\ \E amounts \in BurnAmounts : burn_tokens(amounts[1], amounts[2])
    /\ UNCHANGED <<tasks, factory>>

PlaceOrder ==
    /\ ~engine_borrowed
    /\ \E side \in Sides, price \in Prices, amount \in OrderAmounts :
         place_order(side, price, amount)
    /\ UNCHANGED <<tasks, factory>>

CancelOrder ==
    /\ ~engine_borrowed
    /\ cancel_order
    /\ UNCHANGED <<tasks, factory>>

CancelAllUserOrders ==
    /\ ~engine_borrowed
    /\ cancel_all_user_orders
    /\ UNCHANGED <<tasks, factory>>

CheckExpiry ==
    /\ ~engine_borrowed
    /\ check_expiry
    /\ UNCHANGED <<tasks, factory>>

ClaimWinnings ==
    /\ ~engine_borrowed
    /\ claim_winnings
    /\ UNCHANGED <<tasks, factory>>

RegisterOracle ==
    /\ \E address \in OracleCandidates : register_oracle(address)
    /\ UNCHANGED <<tasks, factory>>

SubmitOutcome ==
    /\ \E market_id \in MarketIds, outcome \in BOOLEAN,
         signature \in PresentedSignatures :
         submit_outcome(market_id, outcome, signature)
    /\ UNCHANGED <<tasks, factory>>

\* resolve as the engine is written: it asks get_oracle_manager
Resolve ==
    /\ ~engine_borrowed
    /\ resolve(get_oracle_manager)
    /\ UNCHANGED <<tasks, factory>>

\* resolve over the registry that submit_outcome wrote
ResolveRegistry ==
    /\ ~engine_borrowed
    /\ resolve(registry_oracle_manager)
    /\ UNCHANGED <<tasks, factory>>

Operations ==
    \/ ConnectWallet
    \/ Tick
    \/ DepositCollateral
    \/ WithdrawCollateral
    \/ MintTokens
    \/ MarketContractMintTokens
    \/ BurnTokens
    \/ PlaceOrder
    \/ CancelOrder
    \/ CancelAllUserOrders
    \/ CheckExpiry
    \/ ClaimWinnings
    \/ RegisterOracle
    \/ SubmitOutcome

Next == Operations \/ Resolve

Spec == Init /\ [][Next]_vars

NextRegistry == Operations \/ ResolveRegistry

SpecRegistry == Init /\ [][NextRegistry]_vars

\* ----------------------------------------------------------- the lifecycle
\* the calls that move the market from Active to Resolved, with mints so that
\* the ledgers are not empty; resolve reads the registry of submit_outcome
NextLifecycle ==
    \/ ConnectWallet
    \/ Tick
    \/ MintTokens
    \/ CheckExpiry
    \/ RegisterOracle
    \/ SubmitOutcome
    \/ ResolveRegistry

SpecLifecycle == Init /\ [][NextLifecycle]_vars

\* ------------------------------------------------------------- the orders
\* deposits, mints and orders, their cancellation by the caller and by
\* resolve, which reads the registry of submit_outcome
NextOrders ==
    \/ ConnectWallet
    \/ Tick
    \/ DepositCollateral
    \/ MintTokens
    \/ PlaceOrder
    \/ CancelOrder
    \/ CancelAllUserOrders
    \/ CheckExpiry
    \/ RegisterOracle
    \/ SubmitOutcome
    \/ ResolveRegistry

SpecOrders == Init /\ [][NextOrders]_vars

\* --------------------------------------------------------- the settlement
\* collateral and tokens through expiry, resolution and claims; resolve
\* reads the registry of submit_outcome
NextSettlement ==
    \/ ConnectWallet
    \/ Tick
    \/ DepositCollateral
    \/ WithdrawCollateral
    \/ MintTokens
    \/ CheckExpiry
    \/ RegisterOracle
    \/ SubmitOutcome
    \/ ResolveRegistry
    \/ ClaimWinnings

SpecSettlement == Init /\ [][NextSettlement]_vars

\* ------------------------------------------------------ the engine alone
\* a call on the engine, traced with its arguments
Traced(args) ==
    /\ ~engine_borrowed
    /\ call_args' = args
    /\ UNCHANGED <<inflight, background_status, factory>>

DepositCollateralCall ==
    \E amount \in DepositAmounts :
        deposit_collateral(amount) /\ Traced(<<"deposit_collateral", amount>>)

WithdrawCollateralCall ==
    \E amount \in WithdrawAmounts :
        withdraw_collateral(amount) /\ Traced(<<"withdraw_collateral", amount>>)

MintTokensCall ==
    \E amount \in MintAmounts :
        mint_tokens(amount) /\ Traced(<<"mint_tokens", amount>>)

MarketContractMintTokensCall ==
    \E amount \in MintAmounts :
        /\ MarketContract_mint_tokens(amount)
        /\ Traced(<<"MarketContract_mint_tokens", amount>>)

BurnTokensCall ==
    \E amounts \in BurnAmounts :
        /\ burn_tokens(amounts[1], amounts[2])
        /\ Traced(<<"burn_tokens", amounts[1], amounts[2]>>)

PlaceOrderCall ==
    \E side \in Sides, price \in Prices, amount \in OrderAmounts :
        /\ place_order(side, price, amount)
        /\ Traced(<<"place_order", side, price, amount>>)

CheckExpiryCall == check_expiry /\ Traced(<<"check_expiry">>)

\* the calls that need neither the oracle registry nor a resolved market
NextEngine ==
    \/ ConnectWallet
    \/ Tick
    \/ DepositCollateralCall
    \/ WithdrawCollateralCall
    \/ MintTokensCall
    \/ MarketContractMintTokensCall
    \/ BurnTokensCall
    \/ PlaceOrderCall
    \/ CheckExpiryCall

SpecEngine == Init /\ [][NextEngine]_vars

\* ---------------------------------------------------------- small amounts
\* the collateral deposited before exploration stops
MaxDeposited == 3

\* amounts that include zero and that several deposits fit under the bound
SmallAmounts == {0, 1, 2}
SmallMintAmounts == {0, 1}

DepositAmountCall ==
    \E amount \in SmallAmounts :
        /\ SumValues(deposited) + amount <= MaxDeposited
        /\ deposit_collateral(amount)
        /\ Traced(<<"deposit_collateral", amount>>)

WithdrawAmountCall ==
    \E amount \in SmallAmounts :
        withdraw_collateral(amount) /\ Traced(<<"withdraw_collateral", amount>>)

MintAmountCall ==
    \E amount \in SmallMintAmounts :
        mint_tokens(amount) /\ Traced(<<"mint_tokens", amount>>)

MarketContractMintAmountCall ==
    \E amount \in SmallMintAmounts :
        /\ MarketContract_mint_tokens(amount)
        /\ Traced(<<"MarketContract_mint_tokens", amount>>)

\* deposits, withdrawals and mints of small amounts by any caller
NextAmounts ==
    \/ ConnectWallet
    \/ Tick
    \/ DepositAmountCall
    \/ WithdrawAmountCall
    \/ MintAmountCall
    \/ MarketContractMintAmountCall
    \/ CheckExpiryCall

SpecAmounts == Init /\ [][NextAmounts]_vars

\* --------------------------------------------------------- the price band
\* best bids and best asks of the book validate_order is given, and the
\* prices of the order, on both sides of 90% and 110% of them
BandBids == {<<>>, <<[price |-> 10, size |-> 1]>>, <<[price |-> 11, size |-> 1]>>}
BandAsks == {<<>>, <<[price |-> 11, size |-> 1]>>, <<[price |-> 15, size |-> 1]>>}
BandBooks == {[bids |-> b, asks |-> a] : b \in BandBids, a \in BandAsks}
BandPrices == 8..17

\* validate_order as place_order calls it, with the book the gateway returned
ValidateOrderCall ==
    \E order_book \in BandBooks, side \in Sides, price \in BandPrices,
       amount \in OrderAmounts :
        /\ last' = Ret("validate_order",
                       validate_order(order_book, side, price, amount))
        /\ call_args' = <<"validate_order", order_book, side, price, amount>>
        /\ UNCHANGED <<ledger, current_user, now, registry, history, inflight,
                       background_status, factory>>

SpecBand == Init /\ [][ValidateOrderCall]_vars

\* ----------------------------------------------------------- the margin
\* positions and books calculate_required_collateral is given: long, short
\* and flat positions, an empty book, a one-sided book and books whose
\* spread falls in each step of the volatility multiplier
MarginPositions ==
    [size : {0, -3, 3, 50}, entry_price : {0, 2, 7}]

Quote(bid, bid_size, ask) ==
    [bids |-> <<[price |-> bid, size |-> bid_size]>>,
     asks |-> <<[price |-> ask, size |-> 1]>>]

MarginBooks ==
    {EmptyBook, QuotedBook,
     [bids |-> <<[price |-> 10, size |-> 2], [price |-> 9, size |-> 5]>>,
      asks |-> <<>>]}
    \cup {Quote(q[1], bid_size, q[2]) :
              q \in {<<9990, 10010>>, <<9970, 10030>>, <<9925, 10075>>,
                     <<9000, 11000>>, <<0, 0>>},
              bid_size \in {0, 1}}

\* calculate_required_collateral with the position and the book the gateway
\* returned
CalculateRequiredCollateralCall ==
    \E position \in MarginPositions, order_book \in MarginBooks :
        /\ last' = [Ret("calculate_required_collateral", "Ok") EXCEPT
                       !.ret = calculate_required_collateral(position, order_book)]
        /\ call_args' = <<"calculate_required_collateral", position, order_book>>
        /\ UNCHANGED <<ledger, current_user, now, registry, history, inflight,
                       background_status, factory>>

SpecMargin == Init /\ [][CalculateRequiredCollateralCall]_vars

\* ------------------------------------------------------ the market factory
\* the markets created and the oracles whitelisted before exploration stops
MaxMarkets == 2
MaxWhitelist == 2

\* the expiry timestamps and oracle identities create_market is called with
ExpiryTimestamps == {0, 1, 2}
OracleIds == Address

\* the listing fees a factory is constructed with
ListingFees == {0, ListingFee}

\* the configured admin identity
AdminAddress == 1

\* AuthManager::get_admin_address
get_admin_address == Some(AdminAddress)

\* Vec::contains on the whitelist
contains(whitelist, a) == \E i \in 1..Len(whitelist) : whitelist[i] = a

\* format!("MARKET_{}", id)
MarketId(id) == <<"MARKET_", id>>

\* generate_market_id with the counter left where it was
generate_market_id_reused ==
    [market_id |-> MarketId(next_market_id), next_market_id |-> next_market_id]

\* MarketFactoryState::generate_market_id: the id and the counter after it
generate_market_id ==
    [market_id |-> MarketId(next_market_id), next_market_id |-> next_market_id + 1]

\* HyperliquidClient::create_market_pair: the token addresses of a market
create_market_pair(market_id) == <<<<market_id, "YES">>, <<market_id, "NO">>>>

\* MarketFactoryState::get_market
get_market(market_id) ==
    IF market_id \in DOMAIN markets THEN Some(markets[market_id]) ELSE None

\* a factory call that returns before it changes the factory
FactoryReturn(op, result) ==
    /\ last' = Ret(op, result)
    /\ UNCHANGED factory

\* create_market with the market id generated before the parameters are checked
create_market_id_first(expiry_timestamp, oracle_id) ==
    /\ UNCHANGED <<ledger, current_user, now, registry, history>>
    /\ UNCHANGED <<oracle_whitelist, listing_fee>>
    /\ LET generated == generate_market_id
           market_id == generated.market_id
           pair == create_market_pair(market_id)
           rejected(result) == /\ last' = Ret("create_market", result)
                               /\ next_market_id' = generated.next_market_id
                               /\ UNCHANGED markets
       IN IF expiry_timestamp <= now
          THEN rejected("InvalidExpiryTime")
          ELSE IF ~contains(oracle_whitelist, oracle_id)
          THEN rejected("InvalidOracle")
          ELSE IF get_current_address = None
          THEN rejected("AuthError")
          ELSE \E fee_transferred \in GatewayCall, pair_created \in GatewayCall :
               IF listing_fee > 0 /\ get_admin_address = None
               THEN rejected("AuthError")
               ELSE IF listing_fee > 0 /\ ~fee_transferred
               THEN rejected("HyperliquidError")
               ELSE IF ~pair_created
               THEN rejected("HyperliquidError")
               ELSE /\ next_market_id' = generated.next_market_id
                    /\ markets' = Put(markets, market_id,
                                      [expiry_timestamp |-> expiry_timestamp,
                                       oracle_id |-> AddrDebug(oracle_id),
                                       status |-> "Active",
                                       yes_token_address |-> pair[1],
                                       no_token_address |-> pair[2],
                                       resolved_outcome |-> None])
                    /\ last' = [Ret("create_market", "Ok")
                                    EXCEPT !.ret = market_id[2]]

\* MarketFactory::create_market
create_market(expiry_timestamp, oracle_id) ==
    /\ UNCHANGED <<ledger, current_user, now, registry, history>>
    /\ UNCHANGED <<oracle_whitelist, listing_fee>>
    /\ IF expiry_timestamp <= now
       THEN FactoryReturn("create_market", "InvalidExpiryTime")
       ELSE IF ~contains(oracle_whitelist, oracle_id)
       THEN FactoryReturn("create_market", "InvalidOracle")
       ELSE IF get_current_address = None
       THEN FactoryReturn("create_market", "AuthError")
       ELSE \E fee_transferred \in GatewayCall, pair_created \in GatewayCall :
            IF listing_fee > 0 /\ get_admin_address = None
            THEN FactoryReturn("create_market", "AuthError")
            ELSE IF listing_fee > 0 /\ ~fee_transferred
            THEN FactoryReturn("create_market", "HyperliquidError")
            ELSE LET generated == generate_market_id
                     market_id == generated.market_id
                     pair == create_market_pair(market_id)
                 IN /\ next_market_id' = generated.next_market_id
                    /\ IF ~pair_created
                       THEN /\ last' = Ret("create_market", "HyperliquidError")
                            /\ UNCHANGED markets
                       ELSE /\ markets' = Put(markets, market_id,
                                      [expiry_timestamp |-> expiry_timestamp,
                                       oracle_id |-> AddrDebug(oracle_id),
                                       status |-> "Active",
                                       yes_token_address |-> pair[1],
                                       no_token_address |-> pair[2],
                                       resolved_outcome |-> None])
                            /\ last' = [Ret("create_market", "Ok")
                                            EXCEPT !.ret = market_id[2]]

\* MarketFactory::add_oracle
add_oracle(oracle_address) ==
    /\ UNCHANGED <<ledger, current_user, now, registry, history>>
    /\ IF get_current_address = None
       THEN FactoryReturn("add_oracle", "AuthError")
       ELSE IF get_admin_address = None
       THEN FactoryReturn("add_oracle", "AuthError")
       ELSE IF get_current_address # get_admin_address
       THEN FactoryReturn("add_oracle", "Unauthorized")
       ELSE /\ oracle_whitelist' = Append(oracle_whitelist, oracle_address)
            /\ last' = Ret("add_oracle", "Ok")
            /\ UNCHANGED <<markets, next_market_id, listing_fee>>

\* a call on the factory, traced with its arguments
TracedFactory(args) ==
    /\ call_args' = args
    /\ UNCHANGED <<inflight, background_status>>

AddOracleCall ==
    \E oracle_address \in OracleIds :
        /\ Len(oracle_whitelist) < MaxWhitelist
        /\ add_oracle(oracle_address)
        /\ TracedFactory(<<"add_oracle", oracle_address>>)

CreateMarketCall ==
    \E expiry_timestamp \in ExpiryTimestamps, oracle_id \in OracleIds :
        /\ next_market_id < MaxMarkets
        /\ create_market(expiry_timestamp, oracle_id)
        /\ TracedFactory(<<"create_market", expiry_timestamp, oracle_id>>)

\* a factory constructed with any listing fee
InitFactory == Constructed /\ listing_fee \in ListingFees

NextFactory ==
    \/ ConnectWallet
    \/ Tick
    \/ AddOracleCall
    \/ CreateMarketCall

SpecFactory == InitFactory /\ [][NextFactory]_vars

\* -------------------------------------------------------- calls in flight
\* the calls a caller may have started and not yet seen return
MaxInFlight == 2

\* a call suspended at its gateway call, with the locals it resumes with
Call(op, user, amount, no_amount, required) ==
    [op |-> op, user |-> user, amount |-> amount, no_amount |-> no_amount,
     required |-> required]

RemoveAt(s, i) == SubSeq(s, 1, i - 1) \o SubSeq(s, i + 1, Len(s))

\* the call passed its checks and awaits the gateway
Suspend(call) ==
    /\ inflight' = Append(inflight, call)
    /\ UNCHANGED <<ledger, current_user, now, registry, history, last,
                   background_status, call_args, factory>>

\* the call returned an error from its checks
ReturnEarly(op, result) ==
    /\ Return(op, result)
    /\ UNCHANGED <<tasks, factory>>

\* deposit_collateral up to client.deposit_collateral(..).await
begin_deposit_collateral(amount) ==
    IF market.status # "Active"
    THEN ReturnEarly("deposit_collateral", "MarketNotActive")
    ELSE IF get_current_address = None
    THEN ReturnEarly("deposit_collateral", "AuthError")
    ELSE /\ total_collateral + amount <= MaxCollateral
         /\ Suspend(Call("deposit_collateral", get_current_address[1], amount,
                         0, 0))

\* deposit_collateral from the gateway's answer to its return
complete_deposit_collateral(i) ==
    LET call == inflight[i]
    IN /\ call.op = "deposit_collateral"
       /\ inflight' = RemoveAt(inflight, i)
       /\ UNCHANGED <<background_status, call_args, factory>>
       /\ \E gw \in DepositCall :
           IF gw = "transfer_error"
           THEN Return("deposit_collateral", "CollateralTransferFailed")
           ELSE IF gw # "ok"
           THEN Return("deposit_collateral", "HyperliquidError")
           ELSE /\ collateral_balances' =
                       Put(collateral_balances, call.user,
                           Get(collateral_balances, call.user, 0) + call.amount)
                /\ total_collateral' = total_collateral + call.amount
                /\ last' = RetAmt("deposit_collateral", "Ok", call.amount)
                /\ deposited' = Put(deposited, call.user,
                                    Get(deposited, call.user, 0) + call.amount)
                /\ UNCHANGED <<market, yes_token_supply, no_token_supply,
                               user_balances, current_user, now, registry,
                               token_history>>

\* withdraw_collateral up to client.withdraw_collateral(..).await
begin_withdraw_collateral(amount) ==
    IF market.status # "Active"
    THEN ReturnEarly("withdraw_collateral", "MarketNotActive")
    ELSE IF get_current_address = None
    THEN ReturnEarly("withdraw_collateral", "AuthError")
    ELSE LET user_address == get_current_address[1]
             balance == Get(collateral_balances, user_address, 0)
         IN IF balance < amount
            THEN ReturnEarly("withdraw_collateral", "WithdrawalExceedsBalance")
            ELSE \E pos \in PositionResults :
                IF pos = None
                THEN ReturnEarly("withdraw_collateral", "HyperliquidError")
                ELSE \E book \in BookResults :
                IF book = None
                THEN ReturnEarly("withdraw_collateral", "HyperliquidError")
                ELSE IF spread_underflows(book[1])
                THEN ReturnEarly("withdraw_collateral", "Panic")
                ELSE LET required_collateral ==
                             calculate_required_collateral(pos[1], book[1])
                     IN IF balance - amount < required_collateral
                        THEN ReturnEarly("withdraw_collateral",
                                         "InsufficientCollateral")
                        ELSE Suspend(Call("withdraw_collateral", user_address,
                                          amount, 0, required_collateral))

\* withdraw_collateral from the gateway's answer to its return; the U256
\* subtractions panic when they underflow
complete_withdraw_collateral(i) ==
    LET call == inflight[i]
    IN /\ call.op = "withdraw_collateral"
       /\ inflight' = RemoveAt(inflight, i)
       /\ UNCHANGED <<background_status, call_args, factory>>
       /\ \E gw_ok \in GatewayCall :
           IF ~gw_ok
           THEN Return("withdraw_collateral", "HyperliquidError")
           ELSE IF call.user \notin DOMAIN collateral_balances
                   \/ collateral_balances[call.user] < call.amount
                   \/ total_collateral < call.amount
           THEN Return("withdraw_collateral", "Panic")
           ELSE /\ collateral_balances' =
                       [collateral_balances EXCEPT ![call.user] = @ - call.amount]
                /\ total_collateral' = total_collateral - call.amount
                /\ last' = [Ret("withdraw_collateral", "Ok")
                              EXCEPT !.amount = call.amount,
                                     !.required = call.required]
                /\ UNCHANGED <<market, yes_token_supply, no_token_supply,
                               user_balances, current_user, now, registry,
                               history>>

\* place_order up to client.place_order(order).await
begin_place_order(side, price, amount) ==
    IF market.status # "Active"
    THEN ReturnEarly("place_order", "MarketNotActive")
    ELSE IF get_current_address = None
    THEN ReturnEarly("place_order", "AuthError")
    ELSE LET user_address == get_current_address[1]
             balance == Get(user_balances, user_address, <<0, 0>>)
             required_collateral == price * amount
             user_collateral == Get(collateral_balances, user_address, 0)
         IN IF (side = "Buy" /\ balance[2] < amount)
               \/ (side = "Sell" /\ balance[1] < amount)
            THEN ReturnEarly("place_order", "InsufficientBalance")
            ELSE \E pos \in PositionResults :
                IF pos = None
                THEN ReturnEarly("place_order", "HyperliquidError")
                ELSE \E book \in BookResults :
                IF book = None
                THEN ReturnEarly("place_order", "HyperliquidError")
                ELSE IF spread_underflows(book[1])
                THEN ReturnEarly("place_order", "Panic")
                ELSE LET current_required_collateral ==
                             calculate_required_collateral(pos[1], book[1])
                         total_required ==
                             current_required_collateral + required_collateral
                     IN IF user_collateral < total_required
                        THEN ReturnEarly("place_order", "InsufficientCollateral")
                        ELSE \E order_book \in BookResults :
                            IF order_book = None
                            THEN ReturnEarly("place_order", "HyperliquidError")
                            ELSE IF validate_order(order_book[1], side, price,
                                                   amount) # "Ok"
                            THEN ReturnEarly("place_order",
                                             validate_order(order_book[1], side,
                                                            price, amount))
                            ELSE Suspend(Call("place_order", user_address,
                                              required_collateral, 0,
                                              current_required_collateral))

\* place_order from the gateway's answer to its return
complete_place_order(i) ==
    LET call == inflight[i]
    IN /\ call.op = "place_order"
       /\ inflight' = RemoveAt(inflight, i)
       /\ UNCHANGED <<background_status, call_args, factory>>
       /\ \E gw_ok \in GatewayCall :
           IF ~gw_ok
           THEN Return("place_order", "OrderPlacementFailed")
           ELSE IF Get(collateral_balances, call.user, 0) < call.amount
           THEN Return("place_order", "Panic")
           ELSE /\ collateral_balances' =
                       [collateral_balances EXCEPT ![call.user] = @ - call.amount]
                /\ last' = [Ret("place_order", "Ok")
                              EXCEPT !.amount = call.amount,
                                     !.required = call.required]
                /\ UNCHANGED <<market, yes_token_supply, no_token_supply,
                               user_balances, total_collateral, current_user,
                               now, registry, history>>

\* the trait's mint_tokens up to its gateway calls
begin_MarketContract_mint_tokens(amount) ==
    IF market.status # "Active"
    THEN ReturnEarly("MarketContract_mint_tokens", "MarketNotActive")
    ELSE IF get_current_address = None
    THEN ReturnEarly("MarketContract_mint_tokens", "AuthError")
    ELSE LET user_address == get_current_address[1]
             collateral_required == amount
             user_collateral == Get(collateral_balances, user_address, 0)
         IN IF user_collateral < collateral_required
            THEN ReturnEarly("MarketContract_mint_tokens",
                             "InsufficientCollateral")
            ELSE /\ yes_token_supply + amount <= MaxSupply
                 /\ no_token_supply + amount <= MaxSupply
                 /\ mint_debited + collateral_required <= MaxSupply
                 /\ Suspend(Call("MarketContract_mint_tokens", user_address,
                                 amount, 0, collateral_required))

\* the trait's mint_tokens from the gateway's answers to its return
complete_MarketContract_mint_tokens(i) ==
    LET call == inflight[i]
        balance == Get(user_balances, call.user, <<0, 0>>)
    IN /\ call.op = "MarketContract_mint_tokens"
       /\ inflight' = RemoveAt(inflight, i)
       /\ UNCHANGED <<background_status, call_args, factory>>
       /\ \E gw_ok \in GatewayCall :
           IF ~gw_ok
           THEN Return("MarketContract_mint_tokens", "HyperliquidError")
           ELSE IF Get(collateral_balances, call.user, 0) < call.required
           THEN Return("MarketContract_mint_tokens", "Panic")
           ELSE /\ collateral_balances' =
                       [collateral_balances EXCEPT
                           ![call.user] = @ - call.required]
                /\ yes_token_supply' = yes_token_supply + call.amount
                /\ no_token_supply' = no_token_supply + call.amount
                /\ user_balances' =
                       Put(user_balances, call.user,
                           <<balance[1] + call.amount, balance[2] + call.amount>>)
                /\ mint_debited' = mint_debited + call.required
                /\ last' = [RetAmt("MarketContract_mint_tokens", "Ok",
                                   call.amount) EXCEPT
                               !.before = <<yes_token_supply, no_token_supply,
                                            balance>>]
                /\ UNCHANGED <<market, total_collateral, current_user, now,
                               registry, claimed, unpaired_burn, claim_credited,
                               deposited>>

\* burn_tokens up to client.burn_tokens(..).await
begin_burn_tokens(yes_amount, no_amount) ==
    IF market.status # "Active"
    THEN ReturnEarly("burn_tokens", "MarketNotActive")
    ELSE IF get_current_address = None
    THEN ReturnEarly("burn_tokens", "AuthError")
    ELSE LET user_address == get_current_address[1]
         IN IF user_address \notin DOMAIN user_balances
            THEN ReturnEarly("burn_tokens", "InsufficientBalance")
            ELSE LET balance == user_balances[user_address]
                 IN IF balance[1] < yes_amount \/ balance[2] < no_amount
                    THEN ReturnEarly("burn_tokens", "InsufficientBalance")
                    ELSE Suspend(Call("burn_tokens", user_address, yes_amount,
                                      no_amount, 0))

\* burn_tokens from the gateway's answer to its return
complete_burn_tokens(i) ==
    LET call == inflight[i]
        balance == Get(user_balances, call.user, <<0, 0>>)
    IN /\ call.op = "burn_tokens"
       /\ inflight' = RemoveAt(inflight, i)
       /\ UNCHANGED <<background_status, call_args, factory>>
       /\ \E gw_ok \in GatewayCall :
           IF ~gw_ok
           THEN Return("burn_tokens", "HyperliquidError")
           ELSE IF yes_token_supply < call.amount
                   \/ no_token_supply < call.no_amount
                   \/ balance[1] < call.amount
                   \/ balance[2] < call.no_amount
           THEN Return("burn_tokens", "Panic")
           ELSE /\ yes_token_supply' = yes_token_supply - call.amount
                /\ no_token_supply' = no_token_supply - call.no_amount
                /\ user_balances' =
                       [user_balances EXCEPT ![call.user] =
                           <<balance[1] - call.amount,
                             balance[2] - call.no_amount>>]
                /\ unpaired_burn' =
                       (unpaired_burn \/ call.amount # call.no_amount)
                /\ last' = [Ret("burn_tokens", "Ok")
                              EXCEPT !.amount = call.amount,
                                     !.ret = call.no_amount]
                /\ UNCHANGED <<market, collateral_balances, total_collateral,
                               current_user, now, registry, claimed,
                               mint_debited, claim_credited, deposited>>

\* the expiry task of MarketContractState::new with a reference to the
\* caller's engine instead of the engine moved into it
background_check_expiry_on_owner ==
    /\ market' = IF now >= market.expiry_timestamp /\ market.status = "Active"
                 THEN set_market_status("Expired")
                 ELSE market
    /\ UNCHANGED <<yes_token_supply, no_token_supply, user_balances,
                   collateral_balances, total_collateral, current_user, now,
                   registry, history, last, tasks, factory>>

\* the expiry task of MarketContractState::new: tokio::spawn(async move ..)
\* takes the engine by value, and each tick of its interval runs
\* check_expiry on that engine
background_check_expiry ==
    /\ background_status' =
           IF now >= market.expiry_timestamp /\ background_status = "Active"
           THEN "Expired"
           ELSE background_status
    /\ UNCHANGED <<ledger, current_user, now, registry, history, last,
                   inflight, call_args, factory>>

\* a caller may start a call when no other call holds the engine
may_begin == ~engine_borrowed /\ Len(inflight) < MaxInFlight

BeginDepositCollateral ==
    /\ may_begin
    /\ \E amount \in DepositAmounts : begin_deposit_collateral(amount)

BeginWithdrawCollateral ==
    /\ may_begin
    /\ \E amount \in WithdrawAmounts : begin_withdraw_collateral(amount)

BeginPlaceOrder ==
    /\ may_begin
    /\ \E side \in Sides, price \in Prices, amount \in OrderAmounts :
         begin_place_order(side, price, amount)

BeginMarketContractMintTokens ==
    /\ may_begin
    /\ \E amount \in MintAmounts : begin_MarketContract_mint_tokens(amount)

BeginBurnTokens ==
    /\ may_begin
    /\ \E amounts \in BurnAmounts : begin_burn_tokens(amounts[1], amounts[2])

CompleteDepositCollateral ==
    \E i \in 1..Len(inflight) : complete_deposit_collateral(i)

CompleteWithdrawCollateral ==
    \E i \in 1..Len(inflight) : complete_withdraw_collateral(i)

CompletePlaceOrder ==
    \E i \in 1..Len(inflight) : complete_place_order(i)

CompleteMarketContractMintTokens ==
    \E i \in 1..Len(inflight) : complete_MarketContract_mint_tokens(i)

CompleteBurnTokens ==
    \E i \in 1..Len(inflight) : complete_burn_tokens(i)

BackgroundCheckExpiry == background_check_expiry

\* the engine with its calls split at the gateway and its expiry task
\* running beside them
TaskSteps ==
    \/ ConnectWallet
    \/ Tick
    \/ MintTokens
    \/ BeginDepositCollateral
    \/ CompleteDepositCollateral
    \/ BeginWithdrawCollateral
    \/ CompleteWithdrawCollateral
    \/ BeginPlaceOrder
    \/ CompletePlaceOrder
    \/ BeginMarketContractMintTokens
    \/ CompleteMarketContractMintTokens
    \/ BeginBurnTokens
    \/ CompleteBurnTokens
    \/ BackgroundCheckExpiry

NextTasks == TaskSteps \/ CheckExpiry

SpecTasks == Init /\ [][NextTasks]_vars

\* the engine whose owner never calls check_expiry; the interval of the
\* expiry task keeps ticking
SpecBackground == Init /\ [][TaskSteps]_vars /\ WF_vars(BackgroundCheckExpiry)

\* the registry alone, serving two markets and any caller as oracle
RegistryMarketIds == {YES_TOKEN, "OTHER_MARKET"}

RegistrySignatures ==
    [signer : Address, market_id : RegistryMarketIds, outcome : BOOLEAN,
     timestamp : {now}, oracle_id : Address]

RegisterAnyOracle ==
    /\ \E address \in Address : register_oracle(address)
    /\ UNCHANGED <<tasks, factory>>

SubmitAnyOutcome ==
    /\ \E market_id \in RegistryMarketIds, outcome \in BOOLEAN,
         signature \in RegistrySignatures :
         submit_outcome(market_id, outcome, signature)
    /\ UNCHANGED <<tasks, factory>>

NextOracle ==
    \/ ConnectWallet
    \/ RegisterAnyOracle
    \/ SubmitAnyOutcome

SpecOracle == Init /\ [][NextOracle]_vars

\* ------------------------------------------------------------- properties
\* the caller of the operation a step runs, and their collateral balance
caller == current_user[1]

collateral_of(balances, a) == Get(balances, a, 0)

\* C1: in every reachable state the sum of all per-user collateral balances
\* equals total_collateral
C1_CollateralSumIsTotal == SumValues(collateral_balances) = total_collateral

caller_is_oracle == AddrDebug(caller) = market.oracle_id

C7_TokensFullyCollateralized ==
    mint_debited - claim_credited >= Max(yes_token_supply, no_token_supply)

C11_ResolveReadsSubmittedOutcome ==
    [][(/\ last'.op = "resolve"
        /\ market.status = "Expired"
        /\ current_user # None
        /\ caller_is_oracle
        /\ market.yes_token_address \in DOMAIN market_outcomes
        /\ last'.result # "HyperliquidError") =>
        /\ last'.result = "Ok"
        /\ market'.status = "Resolved"
        /\ market'.resolved_outcome =
               Some(market_outcomes[market.yes_token_address].outcome)]_vars

\* the operations that require an Active market
ActiveOnly ==
    {"deposit_collateral", "withdraw_collateral", "mint_tokens",
     "MarketContract_mint_tokens", "burn_tokens", "place_order", "cancel_order",
     "cancel_all_user_orders"}

tokens_of(balances, a) == Get(balances, a, <<0, 0>>)

\* C13: mint_tokens(amount) on an Active market fails with
\* InsufficientCollateral and changes nothing when the caller's collateral
\* is below amount; when it returns Ok the caller's collateral decreases by
\* amount and both supplies and both of the caller's token balances
\* increase by amount
C13_MintLocksCollateral ==
    [][(/\ last'.op \in {"mint_tokens", "MarketContract_mint_tokens"}
        /\ market.status = "Active"
        /\ current_user # None) =>
        /\ last'.result \in {"Ok", "InsufficientCollateral"} =>
              (collateral_of(collateral_balances, caller) < last'.amount
                  <=> last'.result = "InsufficientCollateral")
        /\ last'.result = "InsufficientCollateral" =>
              UNCHANGED <<ledger, current_user, registry>>
        /\ last'.result = "Ok" =>
              /\ collateral_of(collateral_balances', caller) =
                     collateral_of(collateral_balances, caller) - last'.amount
              /\ yes_token_supply' = yes_token_supply + last'.amount
              /\ no_token_supply' = no_token_supply + last'.amount
              /\ tokens_of(user_balances', caller) =
                     <<tokens_of(user_balances, caller)[1] + last'.amount,
                       tokens_of(user_balances, caller)[2] + last'.amount>>]_vars

\* the errors an operation returns when a gateway call failed
GatewayErrors ==
    {"HyperliquidError", "CollateralTransferFailed", "OrderPlacementFailed",
     "MarketSettlementFailed"}

C17_MintThenBurnRestores ==
    [][(/\ last.op \in {"mint_tokens", "MarketContract_mint_tokens"}
        /\ last.result = "Ok"
        /\ last'.op = "burn_tokens"
        /\ last'.result = "Ok"
        /\ last'.amount = last.amount
        /\ last'.ret = last.amount) =>
        /\ yes_token_supply' = last.before[1]
        /\ no_token_supply' = last.before[2]
        /\ tokens_of(user_balances', caller) = last.before[3]]_vars

\* what was minted has just been burnt on both sides
C17_Witness ==
    /\ last.op = "burn_tokens"
    /\ last.result = "Ok"
    /\ last.amount > 0
    /\ last.ret = last.amount
    /\ tokens_of(user_balances, caller) = <<0, 0>>
    /\ caller \in DOMAIN user_balances

\* C18: after a user deposited D, minted and had a buy order accepted that
\* locked price * amount > 0, withdraw_collateral(D) fails with
\* InsufficientCollateral and leaves the collateral balances unchanged
C18_WithdrawWithOpenPosition ==
    [][(/\ last.op = "place_order"
        /\ last.result = "Ok"
        /\ last.side = "Buy"
        /\ last.amount > 0
        /\ current_user # None
        /\ caller \in DOMAIN deposited
        /\ caller \in DOMAIN user_balances
        /\ last'.op = "withdraw_collateral"
        /\ last'.amount = deposited[caller]) =>
        /\ last'.result = "InsufficientCollateral"
        /\ UNCHANGED <<collateral_balances, total_collateral>>]_vars

\* C19: the registry is write-once per market id: once an outcome is stored
\* for an id, every later submit_outcome for that id by a registered oracle,
\* whatever the outcome and the signature, returns OutcomeAlreadySubmitted,
\* and get_outcome of that id keeps returning the first outcome
C19_OutcomeWrittenOnce ==
    [][/\ \A m \in DOMAIN market_outcomes :
             get_outcome(OracleManagerState(registered_oracles', market_outcomes'), m)
                 = Some(market_outcomes[m].outcome)
       /\ (/\ last'.op = "submit_outcome"
           /\ last'.market_id \in DOMAIN market_outcomes
           /\ current_user # None
           /\ caller \in DOMAIN registered_oracles) =>
              last'.result = "OutcomeAlreadySubmitted"]_vars

\* a second oracle's submission for a market that has its outcome is rejected
C19_Witness ==
    /\ last.op = "submit_outcome"
    /\ last.result = "OutcomeAlreadySubmitted"
    /\ last.market_id \in DOMAIN market_outcomes
    /\ current_user # None
    /\ market_outcomes[last.market_id].oracle_id # caller
    /\ DOMAIN market_outcomes = RegistryMarketIds

C20_ExpiresWithoutOwnerCall ==
    (now >= market.expiry_timestamp /\ market.status = "Active")
        ~> (market.status = "Expired")

\* the caller's call that the step made, with its arguments
called(op) ==
    /\ call_args' # <<>>
    /\ call_args'[1] = op
    /\ last'.op = op

C23_RejectedCreationConsumesNothing ==
    [][called("create_market") =>
          LET expiry_timestamp == call_args'[2]
              oracle_id == call_args'[3]
              whitelisted == contains(oracle_whitelist, oracle_id)
          IN /\ (expiry_timestamp <= now) <=> (last'.result = "InvalidExpiryTime")
             /\ (expiry_timestamp > now /\ ~whitelisted)
                    <=> (last'.result = "InvalidOracle")
             /\ last'.result \in {"InvalidExpiryTime", "InvalidOracle"}
                    => UNCHANGED <<markets, next_market_id, oracle_whitelist>>
      ]_vars

\* an unlisted oracle was refused after a market had been created
C23_Witness ==
    /\ call_args # <<>>
    /\ call_args[1] = "create_market"
    /\ last.op = "create_market"
    /\ last.result = "InvalidOracle"
    /\ ~contains(oracle_whitelist, call_args[3])
    /\ next_market_id > 0
    /\ markets # EmptyMap

\* C24: a create_market that returns Ok returns an id larger than every id
\* stored before, stores under an id that held no market, keeps every market
\* stored before as it was, and stores the new market Active with no resolved
\* outcome, so that get_market of the returned id is that market
C24_MarketIdsIncrease ==
    [][(called("create_market") /\ last'.result = "Ok") =>
          LET market_id == MarketId(last'.ret)
          IN /\ \A k \in DOMAIN markets : k[2] < last'.ret
             /\ last'.ret >= next_market_id
             /\ next_market_id' > last'.ret
             /\ market_id \notin DOMAIN markets
             /\ DOMAIN markets' = DOMAIN markets \cup {market_id}
             /\ \A k \in DOMAIN markets : markets'[k] = markets[k]
             /\ markets'[market_id].status = "Active"
             /\ markets'[market_id].resolved_outcome = None
             /\ markets'[market_id].expiry_timestamp = call_args'[2]
             /\ \E id \in 0..next_market_id :
                    /\ id = last'.ret
                    /\ get_market(MarketId(id))' = Some(markets'[market_id])
      ]_vars

\* a second market was created beside the first
C24_Witness ==
    /\ last.op = "create_market"
    /\ last.result = "Ok"
    /\ last.ret = 1
    /\ DOMAIN markets = {MarketId(0), MarketId(1)}
    /\ get_market(MarketId(1)) # None

\* C25: a deposit_collateral(amount) that returns Ok ran on an Active market,
\* adds amount to the caller's collateral balance and to total_collateral,
\* and leaves every other user's collateral balance, the token balances, both
\* supplies, the status and the resolved outcome as they were
C25_DepositCreditsCallerOnly ==
    [][(called("deposit_collateral") /\ last'.result = "Ok") =>
          LET amount == call_args'[2]
          IN /\ market.status = "Active"
             /\ collateral_of(collateral_balances', caller)
                    = collateral_of(collateral_balances, caller) + amount
             /\ total_collateral' = total_collateral + amount
             /\ \A a \in Address \ {caller} :
                    /\ (a \in DOMAIN collateral_balances')
                           <=> (a \in DOMAIN collateral_balances)
                    /\ collateral_of(collateral_balances', a)
                           = collateral_of(collateral_balances, a)
             /\ UNCHANGED <<user_balances, yes_token_supply, no_token_supply,
                            market>>
      ]_vars

\* a deposit was accepted while another user held collateral and tokens were
\* in circulation
C25_Witness ==
    /\ call_args = <<"deposit_collateral", 1>>
    /\ last.op = "deposit_collateral"
    /\ last.result = "Ok"
    /\ current_user # None
    /\ \E a \in Address \ {caller} : collateral_of(collateral_balances, a) > 0
    /\ yes_token_supply > 0
    /\ user_balances # EmptyMap

C27_ErrorsChangeNothing ==
    [][last'.result \notin {"Ok", "Panic"} => UNCHANGED ledger]_vars

C29_RefusedResolveCanBeRepeated ==
    [][(/\ last'.op = "resolve"
        /\ market.status = "Expired"
        /\ market.resolved_outcome = None
        /\ current_user # None
        /\ caller_is_oracle) =>
          IF market.yes_token_address \notin DOMAIN market_outcomes
          THEN /\ last'.result = "MarketNotResolved"
               /\ UNCHANGED <<ledger, registry>>
          ELSE \/ last'.result = "HyperliquidError" /\ UNCHANGED ledger
               \/ /\ last'.result = "Ok"
                  /\ market'.status = "Resolved"
      ]_vars

\* C30: deposit_collateral(0) and mint_tokens(0) return an error and leave
\* the ledgers and the market as they were, for every caller
C30_ZeroAmountRejected ==
    [][(/\ \/ called("deposit_collateral")
           \/ called("mint_tokens")
           \/ called("MarketContract_mint_tokens")
        /\ call_args'[2] = 0) =>
          /\ last'.result # "Ok"
          /\ UNCHANGED ledger
      ]_vars

\* C31: a place_order returns InsufficientBalance exactly for a sell of more
\* YES tokens than the caller holds; a buy is never refused for the tokens
\* the caller holds, so a caller holding no tokens can have a buy accepted
C31_OnlySellsNeedTokens ==
    [][(called("place_order") /\ market.status = "Active"
            /\ current_user # None) =>
          LET side == call_args'[2]
              amount == call_args'[4]
              balance == tokens_of(user_balances, caller)
          IN (last'.result = "InsufficientBalance")
                 <=> (side = "Sell" /\ balance[1] < amount)
      ]_vars

\* C32: validate_order returns InvalidOrder for every buy priced above 110%
\* of the best ask and every sell priced below 90% of the best bid, and for
\* no other order: not for a price inside the band, and not when the
\* opposing side of the book is empty
C32_BandRejectsOffMarketPrices ==
    [][called("validate_order") =>
          LET order_book == call_args'[2]
              side == call_args'[3]
              price == call_args'[4]
              above_band == /\ side = "Buy"
                            /\ order_book.asks # <<>>
                            /\ price * 100 > order_book.asks[1].price * 110
              below_band == /\ side = "Sell"
                            /\ order_book.bids # <<>>
                            /\ price * 100 < order_book.bids[1].price * 90
          IN (last'.result = "InvalidOrder") <=> (above_band \/ below_band)
      ]_vars

\* C33: the outcome the registry holds for the market was submitted by the
\* identity the market names as its oracle
C33_OutcomeFromDesignatedOracle ==
    market.yes_token_address \in DOMAIN market_outcomes =>
        AddrDebug(market_outcomes[market.yes_token_address].oracle_id)
            = market.oracle_id

C35_FailedCreationChangesNothing ==
    [][(called("create_market") /\ last'.result # "Ok") => UNCHANGED factory]_vars

\* C36: calculate_required_collateral returns the larger of 100 and
\* position_margin + order_margin + liquidation_buffer, where position_value
\* is |size| times the mid of the best bid and best ask (the entry price when
\* a side of the book is empty), position_margin is 20% of position_value
\* times 1.0, 1.2, 1.5 or 2.0 for a spread below 50, below 100, below 200 or
\* of at least 200 basis points (1.0 when a side is empty), order_margin is
\* the sum over the bid levels of 20% of size * price, and liquidation_buffer
\* is 10% of position_value
C36_RequiredCollateralFormula ==
    [][called("calculate_required_collateral") =>
          LET position == call_args'[2]
              order_book == call_args'[3]
              two_sided == order_book.bids # <<>> /\ order_book.asks # <<>>
              best_bid == order_book.bids[1].price
              best_ask == order_book.asks[1].price
              mid == (best_bid + best_ask) \div 2
              mark_price == IF two_sided THEN mid ELSE position.entry_price
              position_value == Abs(position.size) * mark_price
              spread_bps == ((best_ask - best_bid) * 10000) \div mid
              m_percent == IF ~two_sided \/ mid = 0 THEN 100
                           ELSE IF spread_bps < 50 THEN 100
                           ELSE IF spread_bps < 100 THEN 120
                           ELSE IF spread_bps < 200 THEN 150
                           ELSE 200
              position_margin == (position_value * 20 * m_percent) \div 10000
              liquidation_buffer == (position_value * 10) \div 100
          IN last'.ret = Max(100, position_margin + order_margin(order_book.bids)
                                      + liquidation_buffer)
      ]_vars

\* the tokens of one side held by all users together
held(side) ==
    SumValues([a \in DOMAIN user_balances |-> user_balances[a][side]])

C38_NoOperationAborts == last.result # "Panic"

====
